---- MODULE Spec2Model ----
(***************************************************************************)
(* Forge CLI: the PHP-FPM pool sizing calculator                           *)
(* (php/__init__.py, calculate_fpm_pool_settings) and the state / lineage  *)
(* store (state/__init__.py).                                              *)
(***************************************************************************)
EXTENDS Integers, Sequences, FiniteSets, TLC

VARIABLES
    specs,            \* the specs dict handed to calculate_fpm_pool_settings
    avg_process_mb,   \* its second argument
    settings,         \* what the call produced: NotCalled, a raise, or the dict
    poolPc,           \* "specs" -> "called"
    stateFile,        \* ~/.forge/state.json: Absent, Truncated or Json(state)
    lineageFile,      \* ~/.forge/lineage.json: Absent, Truncated or Json(list)
    now,              \* the clock datetime.now() reads, in ticks
    uuidCount,        \* how many uuid4() values have been drawn
    lastCall,         \* the store function called last, with its arguments
    before,           \* the two files as they were when that call began
    pc,               \* per process: how far its store call has got
    frame,            \* per process: the call's arguments and local variables
    loaded,           \* what the last load_state / load_lineage call produced
    install           \* the PHP install flow: its position and local variables

poolVars == <<specs, avg_process_mb, settings, poolPc>>
storeVars == <<stateFile, lineageFile, now, uuidCount, lastCall, before>>
procVars == <<pc, frame>>
loadVars == <<loaded>>
installVars == <<install>>
vars == <<poolVars, storeVars, procVars, loadVars, installVars>>

(***************************************************************************)
(* Python floats.  calculate_fpm_pool_settings computes on IEEE-754        *)
(* binary64 values; TLC has 32-bit integers, so a magnitude is kept as a   *)
(* little-endian sequence of limbs and every float operation rounds its    *)
(* exact result to a 53-bit significand, ties to even.                     *)
(***************************************************************************)
LimbBits == 14
LimbBase == 2 ^ LimbBits
MantBits == 53

RECURSIVE BigNorm(_)
BigNorm(a) ==
    IF a = <<>> THEN <<>>
    ELSE IF a[Len(a)] = 0 THEN BigNorm(SubSeq(a, 1, Len(a) - 1))
    ELSE a

RECURSIVE BigFromInt(_)
BigFromInt(n) ==
    IF n = 0 THEN <<>> ELSE <<n % LimbBase>> \o BigFromInt(n \div LimbBase)

RECURSIVE BigToInt(_)
BigToInt(a) ==
    IF a = <<>> THEN 0 ELSE a[1] + LimbBase * BigToInt(Tail(a))

BigHead(a) == IF a = <<>> THEN 0 ELSE a[1]
BigTail(a) == IF a = <<>> THEN <<>> ELSE Tail(a)

RECURSIVE BigAddC(_, _, _)
BigAddC(a, b, c) ==
    IF a = <<>> /\ b = <<>>
    THEN (IF c = 0 THEN <<>> ELSE <<c>>)
    ELSE LET x == BigHead(a) + BigHead(b) + c
         IN  <<x % LimbBase>> \o BigAddC(BigTail(a), BigTail(b), x \div LimbBase)

BigAdd(a, b) == BigNorm(BigAddC(a, b, 0))

\* a - b for a >= b
RECURSIVE BigSubB(_, _, _)
BigSubB(a, b, borrow) ==
    IF a = <<>> THEN <<>>
    ELSE LET x == BigHead(a) - BigHead(b) - borrow
         IN  IF x < 0
             THEN <<x + LimbBase>> \o BigSubB(BigTail(a), BigTail(b), 1)
             ELSE <<x>> \o BigSubB(BigTail(a), BigTail(b), 0)

BigSub(a, b) == BigNorm(BigSubB(a, b, 0))

\* -1, 0, 1 as a < b, a = b, a > b; both normalised
RECURSIVE BigCmp(_, _)
BigCmp(a, b) ==
    IF Len(a) # Len(b) THEN (IF Len(a) < Len(b) THEN -1 ELSE 1)
    ELSE IF a = <<>> THEN 0
    ELSE IF a[Len(a)] # b[Len(b)] THEN (IF a[Len(a)] < b[Len(b)] THEN -1 ELSE 1)
    ELSE BigCmp(SubSeq(a, 1, Len(a) - 1), SubSeq(b, 1, Len(b) - 1))

\* a * k + c for one limb k
RECURSIVE BigMulSmallC(_, _, _)
BigMulSmallC(a, k, c) ==
    IF a = <<>> THEN (IF c = 0 THEN <<>> ELSE <<c>>)
    ELSE LET x == a[1] * k + c
         IN  <<x % LimbBase>> \o BigMulSmallC(Tail(a), k, x \div LimbBase)

RECURSIVE BigMulR(_, _)
BigMulR(a, b) ==
    IF b = <<>> THEN <<>>
    ELSE BigAddC(BigMulSmallC(a, b[1], 0), <<0>> \o BigMulR(a, Tail(b)), 0)

BigMul(a, b) == BigNorm(BigMulR(a, b))

\* quotient and remainder of a by an integer 0 < d < 2^17
RECURSIVE BigDivRem(_, _)
BigDivRem(a, d) ==
    IF a = <<>> THEN [q |-> <<>>, r |-> 0]
    ELSE LET hi  == BigDivRem(Tail(a), d)
             cur == hi.r * LimbBase + a[1]
         IN  [q |-> <<cur \div d>> \o hi.q, r |-> cur % d]

BigShl(a, n) ==
    IF a = <<>> THEN <<>>
    ELSE BigNorm([i \in 1..(n \div LimbBits) |-> 0]
                 \o BigMulSmallC(a, 2 ^ (n % LimbBits), 0))

BigShr(a, n) ==
    IF n \div LimbBits >= Len(a) THEN <<>>
    ELSE BigNorm(BigDivRem(SubSeq(a, (n \div LimbBits) + 1, Len(a)),
                           2 ^ (n % LimbBits)).q)

RECURSIVE IntBitLen(_)
IntBitLen(n) == IF n = 0 THEN 0 ELSE 1 + IntBitLen(n \div 2)

BigBitLen(a) ==
    IF a = <<>> THEN 0 ELSE LimbBits * (Len(a) - 1) + IntBitLen(a[Len(a)])

\* A float is sign * m * 2^e, m a normalised magnitude.
Float(sign, m, e) == [sign |-> IF m = <<>> THEN 1 ELSE sign, m |-> m, e |-> e]

\* the exact value m * 2^e (plus a nonzero fraction below m's last bit when
\* sticky), rounded to the nearest float, ties to even
RoundNearestEven(sign, m, e, sticky) ==
    LET L == BigBitLen(m)
    IN  IF L <= MantBits THEN Float(sign, m, e)
        ELSE LET s    == L - MantBits
                 q    == BigShr(m, s)
                 rem  == BigSub(m, BigShl(q, s))
                 half == BigShl(<<1>>, s - 1)
                 c    == BigCmp(rem, half)
                 up   == c > 0 \/ (c = 0 /\ (sticky \/ BigHead(q) % 2 = 1))
             IN  Float(sign, IF up THEN BigAdd(q, <<1>>) ELSE q, e + s)

\* float(n) of a Python int n, here n = k * 2^e exactly (|k| < 2^31)
FromInt(k, e) ==
    RoundNearestEven(IF k < 0 THEN -1 ELSE 1,
                     BigFromInt(IF k < 0 THEN -k ELSE k), e, FALSE)

FMul(x, y) ==
    RoundNearestEven(x.sign * y.sign, BigMul(x.m, y.m), x.e + y.e, FALSE)

Min(a, b) == IF a < b THEN a ELSE b
Max(a, b) == IF a > b THEN a ELSE b

FAdd(x, y) ==
    LET e  == Min(x.e, y.e)
        mx == BigShl(x.m, x.e - e)
        my == BigShl(y.m, y.e - e)
        c  == BigCmp(mx, my)
    IN  IF x.sign = y.sign THEN RoundNearestEven(x.sign, BigAdd(mx, my), e, FALSE)
        ELSE IF c >= 0 THEN RoundNearestEven(x.sign, BigSub(mx, my), e, FALSE)
        ELSE RoundNearestEven(y.sign, BigSub(my, mx), e, FALSE)

FNeg(x) == Float(-x.sign, x.m, x.e)
FSub(x, y) == FAdd(x, FNeg(y))

\* x / d for a float or int x and an int d with 0 < d < 2^17: the correctly
\* rounded quotient
FDivInt(x, d) ==
    LET need == (MantBits + 2) + IntBitLen(d) - BigBitLen(x.m)
        k    == Max(0, need)
        qr   == BigDivRem(BigShl(x.m, k), d)
    IN  IF x.m = <<>> THEN x
        ELSE RoundNearestEven(x.sign, BigNorm(qr.q), x.e - k, qr.r # 0)

\* -1, 0, 1 as x < y, x = y, x > y
FCmp(x, y) ==
    LET e  == Min(x.e, y.e)
        mx == BigShl(x.m, x.e - e)
        my == BigShl(y.m, y.e - e)
    IN  IF x.sign # y.sign THEN x.sign
        ELSE x.sign * BigCmp(mx, my)

\* int(x): truncation toward zero
FTrunc(x) ==
    x.sign * BigToInt(IF x.e >= 0 THEN BigShl(x.m, x.e) ELSE BigShr(x.m, -x.e))

\* a decimal literal n/100 such as 0.40: the float nearest to it
Hundredths(n) == FDivInt(FromInt(n, 0), 100)

(***************************************************************************)
(* PoolSizer: calculate_fpm_pool_settings                                   *)
(***************************************************************************)
NotCalled == [kind |-> "not_called"]
Raised(error) == [kind |-> "raised", error |-> error]
Returned(value) == [kind |-> "returned", value |-> value]

\* the byte count kb * 1024 that get_server_specs derives from /proc/meminfo
KbToBytes(kb) == FromInt(kb, 10)

server_size_of_strict(ram_mb) ==
    IF FCmp(ram_mb, FromInt(1024, 0)) < 0 THEN "small"
    ELSE IF FCmp(ram_mb, FromInt(4096, 0)) < 0 THEN "medium"
    ELSE IF FCmp(ram_mb, FromInt(16384, 0)) < 0 THEN "large"
    ELSE "enterprise"

server_size_of(ram_mb) ==
    IF FCmp(ram_mb, FromInt(1024, 0)) <= 0 THEN "small"
    ELSE IF FCmp(ram_mb, FromInt(4096, 0)) <= 0 THEN "medium"
    ELSE IF FCmp(ram_mb, FromInt(16384, 0)) <= 0 THEN "large"
    ELSE "enterprise"

\* reserved_pct of each size class, in hundredths
reserved_pct_of(server_size) ==
    CASE server_size = "small" -> 40
      [] server_size = "medium" -> 30
      [] server_size = "large" -> 25
      [] OTHER -> 20

available_for_php_of_swap_cap(ram_mb, swap_mb, server_size) ==
    LET reserved_pct == Hundredths(reserved_pct_of(server_size))
        base == FMul(ram_mb, FSub(FromInt(1, 0), reserved_pct))
        buffer == FMul(swap_mb, Hundredths(25))
    IN  IF FCmp(swap_mb, FromInt(0, 0)) > 0 /\ FCmp(buffer, base) < 0 THEN buffer ELSE base

available_for_php_of(ram_mb, swap_mb, server_size) ==
    LET reserved_pct == Hundredths(reserved_pct_of(server_size))
        base == FMul(ram_mb, FSub(FromInt(1, 0), reserved_pct))
    IN  IF FCmp(swap_mb, FromInt(0, 0)) > 0
        THEN FAdd(base, FMul(swap_mb, Hundredths(25)))
        ELSE base

clamp_max_children_no_floor(n) == Min(n, 500)
clamp_max_children_reset(n) == IF n > 500 THEN 2 ELSE Max(2, n)
clamp_max_children(n) == Max(2, Min(n, 500))

\* "Ensure values are sane": a spare-server figure is cut to its limit
sane_unclamped(value, limit) == value
sane(value, limit) == Min(value, limit)

pm_of(server_size) == IF server_size = "small" THEN "ondemand" ELSE "dynamic"

start_servers_of(server_size, cpu_count) ==
    CASE server_size = "small" -> 2
      [] server_size = "medium" -> Max(2, cpu_count)
      [] OTHER -> Max(4, cpu_count * 2)

\* the medium and large figures without their floors of 1 and 2
min_spare_of_no_floor(server_size, cpu_count) ==
    CASE server_size = "small" -> 1
      [] server_size = "medium" -> cpu_count \div 2
      [] OTHER -> cpu_count

min_spare_of(server_size, cpu_count) ==
    CASE server_size = "small" -> 1
      [] server_size = "medium" -> Max(1, cpu_count \div 2)
      [] OTHER -> Max(2, cpu_count)

max_spare_of(server_size, cpu_count) ==
    CASE server_size = "small" -> 3
      [] server_size = "medium" -> Max(3, cpu_count * 2)
      [] OTHER -> Max(6, cpu_count * 4)

calculate_fpm_pool_settings(sp, avg) ==
    LET ram_mb == FDivInt(FDivInt(sp["ram_total"], 1024), 1024)
        swap_mb == FDivInt(FDivInt(sp["swap_total"], 1024), 1024)
        cpu_count == sp["cpu_count"]
        server_size == server_size_of(ram_mb)
        available_for_php == available_for_php_of(ram_mb, swap_mb, server_size)
        max_children == clamp_max_children(FTrunc(FDivInt(available_for_php, avg)))
        start_servers == sane(start_servers_of(server_size, cpu_count), max_children \div 2)
        min_spare == sane(min_spare_of(server_size, cpu_count), start_servers)
        max_spare == sane(max_spare_of(server_size, cpu_count), max_children \div 2)
    IN  IF avg = 0 THEN Raised("ZeroDivisionError")
        ELSE Returned(
            ("pm" :> pm_of(server_size))
            @@ ("pm.max_children" :> max_children)
            @@ ("pm.start_servers" :> start_servers)
            @@ ("pm.min_spare_servers" :> min_spare)
            @@ ("pm.max_spare_servers" :> max_spare)
            @@ ("pm.max_requests" :> 500)
            @@ ("pm.process_idle_timeout" :> "10s")
            @@ ("server_size" :> server_size)
            @@ ("ram_mb" :> FTrunc(ram_mb))
            @@ ("swap_mb" :> FTrunc(swap_mb))
            @@ ("cpu_count" :> cpu_count)
            @@ ("available_for_php_mb" :> FTrunc(available_for_php))
            @@ ("avg_process_mb" :> avg))

\* The inputs: memory sizes in kB as /proc/meminfo gives them (the byte count
\* is 1024 times that), CPU counts, and the per-process sizes the menu offers
\* (30..150) besides those of the tests and the degenerate 0.
MaxCpu == 8
RamMb == {-1, 0, 1, 100, 256, 1000, 1024, 1025, 1290, 1300, 2048, 2700, 4096,
          4097, 8192, 16384, 16385, 32768, 65536, 131072}
RamKb == {mb * 1024 : mb \in RamMb} \cup {1024 * 1024 + 1, 16384 * 1024 + 1}
SwapKb == {mb * 1024 : mb \in {-1, 0, 2048}} \cup {1, 1000 * 1024 + 1}
CpuCounts == 0..MaxCpu
AvgProcessMb == {0, 1, 10, 30, 50, 80, 100, 150}

\* get_server_specs' defaults, before anything is read
DefaultSpecs ==
    ("ram_total" :> KbToBytes(0)) @@ ("swap_total" :> KbToBytes(0)) @@ ("cpu_count" :> 1)

PoolInit ==
    /\ specs = DefaultSpecs
    /\ avg_process_mb = 50
    /\ settings = NotCalled
    /\ poolPc = "specs"

\* the caller builds the specs and picks the per-process size
SupplySpecs ==
    /\ poolPc = "specs"
    /\ settings = NotCalled
    /\ specs = DefaultSpecs /\ avg_process_mb = 50
    /\ \E ram \in RamKb, swap \in SwapKb, cpu \in CpuCounts, avg \in AvgProcessMb :
          /\ specs' = ("ram_total" :> KbToBytes(ram)) @@ ("swap_total" :> KbToBytes(swap))
                        @@ ("cpu_count" :> cpu)
          /\ avg_process_mb' = avg
    /\ UNCHANGED <<settings, poolPc, storeVars, procVars, loadVars, installVars>>

CalculateFpmPoolSettings ==
    /\ poolPc = "specs"
    /\ settings' = calculate_fpm_pool_settings(specs, avg_process_mb)
    /\ poolPc' = "called"
    /\ UNCHANGED <<specs, avg_process_mb, storeVars, procVars, loadVars, installVars>>

PoolNext == SupplySpecs \/ CalculateFpmPoolSettings

(***************************************************************************)
(* LineageStore: state/__init__.py.  What json.dump writes and json.load   *)
(* reads back is kept as the value itself; the values a key can hold in    *)
(* several types (None, str, int, bool, a timestamp) carry their type.     *)
(***************************************************************************)
None == <<"None">>
Str(s) == <<"str", s>>
Num(n) == <<"int", n>>
Bool(b) == <<"bool", b>>
Dict(d) == <<"dict", d>>
\* datetime.now().isoformat() read at clock tick t
Iso(t) == <<"iso", t>>
EmptyDict == <<>>

Absent == <<"absent">>
Truncated == <<"truncated">>
Json(value) == <<"json", value>>

LineageCap == 1000

get_default_state ==
    [version |-> "1.0.0", sites |-> EmptyDict, php |-> EmptyDict,
     pending_operations |-> <<>>, last_updated |-> None]

\* a missing file and one json.load cannot parse both give the default
load_state(file) == IF file[1] = "json" THEN file[2] ELSE get_default_state

save_state(state, t) == Json([state EXCEPT !.last_updated = Iso(t)])

load_lineage(file) == IF file[1] = "json" THEN file[2] ELSE <<>>

\* save_lineage without the cap
save_lineage_untrimmed(lineage) == Json(lineage)

save_lineage(lineage) ==
    Json(IF Len(lineage) > LineageCap
         THEN SubSeq(lineage, Len(lineage) - LineageCap + 1, Len(lineage))
         ELSE lineage)

lineage_entry(t, entity_type, entity_id, action, old_state, new_state) ==
    [timestamp |-> Iso(t), entity_type |-> entity_type, entity_id |-> entity_id,
     action |-> action, old_state |-> old_state, new_state |-> new_state,
     metadata |-> EmptyDict]

record_lineage(file, t, entity_type, entity_id, action, old_state, new_state) ==
    save_lineage(Append(load_lineage(file),
        lineage_entry(t, entity_type, entity_id, action, old_state, new_state)))

\* dict.get(key): the value, or None
Get(d, key) == IF key \in DOMAIN d THEN Dict(d[key]) ELSE None
Put(d, key, value) == (key :> value) @@ d
DelNothing(d, key) == d
Del(d, key) == [k \in DOMAIN d \ {key} |-> d[k]]
\* Python's truth value of an Optional[Dict]
Truthy(v) == v # None /\ DOMAIN v[2] # {}

\* ---- sites
site_record(domain, a, old_state, t) ==
    LET created_at == IF old_state # None /\ "created_at" \in DOMAIN old_state[2]
                      THEN old_state[2]["created_at"] ELSE Iso(t)
        fields == [domain |-> Str(domain), type |-> Str(a.site_type),
                   ssl_enabled |-> Bool(a.ssl_enabled), port |-> a.port,
                   document_root |-> a.document_root, php_version |-> a.php_version,
                   enabled |-> Bool(a.enabled), created_at |-> created_at,
                   updated_at |-> Iso(t)]
    IN  IF a.extra = None THEN fields ELSE a.extra[2] @@ fields

site_action_always_create(old_state) == "create"
site_action(old_state) == IF Truthy(old_state) THEN "update" ELSE "create"

\* ---- php
php_record_union(version, extensions, old_state, t) ==
    [version |-> version,
     extensions |-> IF old_state = None THEN extensions
                    ELSE old_state[2].extensions
                         \o SelectSeq(extensions,
                                LAMBDA x : \A i \in DOMAIN old_state[2].extensions :
                                              old_state[2].extensions[i] # x),
     config |-> EmptyDict,
     installed_at |-> IF old_state # None /\ "installed_at" \in DOMAIN old_state[2]
                      THEN old_state[2]["installed_at"] ELSE Iso(t),
     updated_at |-> Iso(t)]
php_record(version, extensions, old_state, t) ==
    [version |-> version, extensions |-> extensions, config |-> EmptyDict,
     installed_at |-> IF old_state # None /\ "installed_at" \in DOMAIN old_state[2]
                      THEN old_state[2]["installed_at"] ELSE Iso(t),
     updated_at |-> Iso(t)]

php_action(old_state) == IF Truthy(old_state) THEN "update" ELSE "install"

Range(seq) == {seq[i] : i \in DOMAIN seq}
\* the distinct elements of xs but for its first one
ListsOfSetTail(xs) ==
    LET rest == IF xs = <<>> THEN {} ELSE {xs[i] : i \in 2..Len(xs)}
    IN  {seq \in [1..Cardinality(rest) -> rest] : {seq[i] : i \in DOMAIN seq} = rest}
\* list(set(xs)): the distinct elements of xs, in whatever order the set
\* iterates
ListsOfSet(xs) ==
    {seq \in [1..Cardinality(Range(xs)) -> Range(xs)] : Range(seq) = Range(xs)}

\* ---- pending operations
\* str(uuid.uuid4())[:8]: the n-th identifier drawn; uuids do not repeat
Uuid4Prefix(n) ==
    <<"3f2a9c01", "7be4d210", "c09a55f3", "1d6e8b47", "e2f0a9c8", "58b3c7d1">>[n]

operation_record(op_id, op_type, data, t) ==
    [id |-> op_id, type |-> op_type, data |-> data, created_at |-> Iso(t),
     status |-> "pending"]

\* the index of the first operation with that id, or 0
FirstWithId(ops, op_id) ==
    IF \E i \in DOMAIN ops : ops[i].id = op_id
    THEN CHOOSE i \in DOMAIN ops :
            /\ ops[i].id = op_id
            /\ \A j \in DOMAIN ops : ops[j].id = op_id => i <= j
    ELSE 0

complete_operation(op, t) ==
    ("completed_at" :> Iso(t)) @@ [op EXCEPT !.status = "complete"]

\* get_pending_operations with the status test left out
get_pending_operations_any_status(file, op_type) ==
    LET operations == load_state(file).pending_operations
    IN  IF op_type # None /\ op_type[2] # ""
        THEN SelectSeq(operations, LAMBDA op : op.type = op_type[2])
        ELSE operations

\* get_pending_operations(op_type), op_type None or Str(type), read from the
\* state file
get_pending_operations(file, op_type) ==
    LET operations == SelectSeq(load_state(file).pending_operations,
                                LAMBDA op : op.status = "pending")
    IN  IF op_type # None /\ op_type[2] # ""
        THEN SelectSeq(operations, LAMBDA op : op.type = op_type[2])
        ELSE operations

(***************************************************************************)
(* The store's operations, one call at a time (the CLI is single-threaded) *)
(***************************************************************************)
MaxClock == 3

Domains == {"example.com", "other.com"}
Versions == {"8.3"}
ExtensionLists == <<(<<"cli">>), (<<"fpm">>), (<<"cli", "fpm", "cli">>)>>
OpTypes == {"php_install", "ssl_provision"}

\* the argument lists save_site_state is called with: the bare call of the
\* tests, their nextjs site, the site-creation flow with extra keys, and an
\* extra map that names a key of the record itself
SiteArgs == <<
    [site_type |-> "static", ssl_enabled |-> FALSE, port |-> None,
     document_root |-> None, php_version |-> None, enabled |-> TRUE,
     extra |-> None],
    [site_type |-> "nextjs", ssl_enabled |-> TRUE, port |-> Num(3000),
     document_root |-> None, php_version |-> None, enabled |-> TRUE,
     extra |-> None],
    [site_type |-> "php", ssl_enabled |-> FALSE, port |-> None,
     document_root |-> Str("/var/www/html"), php_version |-> Str("8.3"),
     enabled |-> TRUE, extra |-> Dict([basic_auth |-> Bool(TRUE)])],
    [site_type |-> "static", ssl_enabled |-> FALSE, port |-> None,
     document_root |-> None, php_version |-> None, enabled |-> TRUE,
     extra |-> Dict([created_at |-> Str("2020-01-01T00:00:00")])] >>

StoreInit ==
    /\ stateFile = Absent
    /\ lineageFile = Absent
    /\ now = 0
    /\ uuidCount = 0
    /\ lastCall = [op |-> "none"]
    /\ before = [state |-> Absent, lineage |-> Absent]

\* what every call does besides its own work: the clock moves on, and the
\* call and the files it found are remembered
Called(call) ==
    /\ now < MaxClock
    /\ now' = now + 1
    /\ lastCall' = call
    /\ before' = [state |-> stateFile, lineage |-> lineageFile]
    /\ UNCHANGED <<poolVars, procVars, loadVars, installVars>>

SaveSiteState(domain, a) ==
    /\ Called([op |-> "save_site_state", domain |-> domain, args |-> a])
    /\ LET t == now + 1
           state == load_state(stateFile)
           old_state == Get(state.sites, domain)
           record == site_record(domain, a, old_state, t)
       IN  /\ stateFile' = save_state([state EXCEPT !.sites = Put(@, domain, record)], t)
           /\ lineageFile' = record_lineage(lineageFile, t, "site", domain,
                                 site_action(old_state), old_state, Dict(record))
    /\ UNCHANGED uuidCount

\* update_site_ssl rewriting the record from its standard keys
ssl_updated_rebuilt(record, ssl_enabled, t) ==
    ("ssl_enabled" :> Bool(ssl_enabled)) @@ ("updated_at" :> Iso(t))
    @@ [k \in DOMAIN record \cap {"domain", "type", "enabled", "created_at"} |-> record[k]]

\* update_site_ssl lines 111-112: the two keys it assigns in the record
ssl_updated(record, ssl_enabled, t) ==
    ("ssl_enabled" :> Bool(ssl_enabled)) @@ ("updated_at" :> Iso(t)) @@ record

UpdateSiteSsl(domain, ssl_enabled) ==
    /\ Called([op |-> "update_site_ssl", domain |-> domain, ssl_enabled |-> ssl_enabled])
    /\ LET t == now + 1
           state == load_state(stateFile)
       IN  IF domain \in DOMAIN state.sites
           THEN LET old_ssl == IF "ssl_enabled" \in DOMAIN state.sites[domain]
                               THEN state.sites[domain]["ssl_enabled"] ELSE None
                    record == ssl_updated(state.sites[domain], ssl_enabled, t)
                IN  /\ stateFile' = save_state([state EXCEPT !.sites = Put(@, domain, record)], t)
                    /\ lineageFile' = record_lineage(lineageFile, t, "site", domain,
                                          "ssl_update", Dict([ssl_enabled |-> old_ssl]),
                                          Dict([ssl_enabled |-> Bool(ssl_enabled)]))
           ELSE UNCHANGED <<stateFile, lineageFile>>
    /\ UNCHANGED uuidCount

\* delete_site_state with save_state moved out of the if
DeleteSiteStateAlwaysSaves(domain) ==
    /\ Called([op |-> "delete_site_state", domain |-> domain])
    /\ LET t == now + 1
           state == load_state(stateFile)
       IN  /\ stateFile' = save_state([state EXCEPT !.sites = Del(@, domain)], t)
           /\ IF domain \in DOMAIN state.sites
              THEN lineageFile' = record_lineage(lineageFile, t, "site", domain,
                                      "delete", Dict(state.sites[domain]), None)
              ELSE UNCHANGED lineageFile
    /\ UNCHANGED uuidCount

DeleteSiteState(domain) ==
    /\ Called([op |-> "delete_site_state", domain |-> domain])
    /\ LET t == now + 1
           state == load_state(stateFile)
       IN  IF domain \in DOMAIN state.sites
           THEN /\ stateFile' = save_state([state EXCEPT !.sites = Del(@, domain)], t)
                /\ lineageFile' = record_lineage(lineageFile, t, "site", domain,
                                      "delete", Dict(state.sites[domain]), None)
           ELSE UNCHANGED <<stateFile, lineageFile>>
    /\ UNCHANGED uuidCount

SavePhpState(version, extensions) ==
    /\ Called([op |-> "save_php_state", version |-> version, extensions |-> extensions])
    /\ LET t == now + 1
           state == load_state(stateFile)
           old_state == Get(state.php, version)
           record == php_record(version, extensions, old_state, t)
       IN  /\ stateFile' = save_state([state EXCEPT !.php = Put(@, version, record)], t)
           /\ lineageFile' = record_lineage(lineageFile, t, "php", version,
                                 php_action(old_state), old_state, Dict(record))
    /\ UNCHANGED uuidCount

AddPhpExtensions(version, extensions) ==
    /\ Called([op |-> "add_php_extensions", version |-> version, extensions |-> extensions])
    /\ LET t == now + 1
           state == load_state(stateFile)
           found == IF version \in DOMAIN state.php THEN state.php[version]
                    ELSE [version |-> version, extensions |-> <<>>, installed_at |-> Iso(t)]
           old_extensions == IF "extensions" \in DOMAIN found THEN found.extensions ELSE <<>>
       IN  \E new_extensions \in ListsOfSet(old_extensions \o extensions) :
              LET record == ("extensions" :> new_extensions)
                            @@ ("updated_at" :> Iso(t)) @@ found
              IN  /\ stateFile' = save_state([state EXCEPT !.php = Put(@, version, record)], t)
                  /\ lineageFile' = record_lineage(lineageFile, t, "php_extensions", version,
                                        "add", Dict([extensions |-> old_extensions]),
                                        Dict([extensions |-> new_extensions]))
    /\ UNCHANGED uuidCount

AddPendingOperation(op_type, data) ==
    /\ Called([op |-> "add_pending_operation", type |-> op_type, data |-> data,
               returned |-> Uuid4Prefix(uuidCount + 1)])
    /\ LET t == now + 1
           state == load_state(stateFile)
           op_id == Uuid4Prefix(uuidCount + 1)
           operation == operation_record(op_id, op_type, data, t)
       IN  /\ stateFile' = save_state(
                  [state EXCEPT !.pending_operations = Append(@, operation)], t)
           /\ lineageFile' = record_lineage(lineageFile, t, "operation", op_id,
                                 "start", None, Dict(operation))
    /\ uuidCount' = uuidCount + 1

CompletePendingOperation(op_id) ==
    /\ Called([op |-> "complete_pending_operation", id |-> op_id])
    /\ LET t == now + 1
           state == load_state(stateFile)
           i == FirstWithId(state.pending_operations, op_id)
       IN  IF i # 0
           THEN /\ lineageFile' = record_lineage(lineageFile, t, "operation", op_id,
                                      "complete", Dict([status |-> "pending"]),
                                      Dict([status |-> "complete"]))
                /\ stateFile' = save_state(
                       [state EXCEPT !.pending_operations[i] = complete_operation(@, t)], t)
           ELSE /\ stateFile' = save_state(state, t)
                /\ UNCHANGED lineageFile
    /\ UNCHANGED uuidCount

ClearCompletedOperations ==
    /\ Called([op |-> "clear_completed_operations"])
    /\ LET t == now + 1
           state == load_state(stateFile)
       IN  stateFile' = save_state(
               [state EXCEPT !.pending_operations =
                    SelectSeq(@, LAMBDA o : o.status # "complete")], t)
    /\ UNCHANGED <<lineageFile, uuidCount>>

ClearLineage ==
    /\ Called([op |-> "clear_lineage"])
    /\ lineageFile' = save_lineage(<<>>)
    /\ UNCHANGED <<stateFile, uuidCount>>

\* record_lineage as the disk, cve and security modules call it directly
RecordLineage(entity_type, entity_id, action) ==
    /\ Called([op |-> "record_lineage", entity_type |-> entity_type,
               entity_id |-> entity_id, action |-> action])
    /\ lineageFile' = record_lineage(lineageFile, now + 1, entity_type, entity_id,
                          action, Dict([size |-> Str("2G")]), None)
    /\ UNCHANGED <<stateFile, uuidCount>>

\* an id no operation has: no uuid drawn so far equals it
UnknownId == "00000000"

Next ==
    \/ \E domain \in Domains, i \in DOMAIN SiteArgs : SaveSiteState(domain, SiteArgs[i])
    \/ \E domain \in Domains, ssl_enabled \in BOOLEAN : UpdateSiteSsl(domain, ssl_enabled)
    \/ \E domain \in Domains : DeleteSiteState(domain)
    \/ \E version \in Versions, i \in DOMAIN ExtensionLists :
          SavePhpState(version, ExtensionLists[i])
    \/ \E version \in Versions, i \in DOMAIN ExtensionLists :
          AddPhpExtensions(version, ExtensionLists[i])
    \/ \E op_type \in OpTypes : AddPendingOperation(op_type, [domain |-> "example.com"])
    \/ \E n \in 1..uuidCount : CompletePendingOperation(Uuid4Prefix(n))
    \/ CompletePendingOperation(UnknownId)
    \/ ClearCompletedOperations
    \/ ClearLineage
    \/ RecordLineage("disk", "swap", "create")


(***************************************************************************)
(* Two processes on the same ~/.forge (an interactive session and a cron   *)
(* job), each making one store call.  A call is a sequence of file         *)
(* operations: load_state opens and reads state.json; save_state opens it  *)
(* with mode "w", which empties it, and json.dump then writes it;          *)
(* record_lineage does the same with lineage.json.  Nothing in the module  *)
(* locks either file, so the steps of the two processes interleave freely. *)
(***************************************************************************)
Procs == {"cli", "cron"}

\* what each process may call
ProcCalls(p) ==
    IF p = "cli"
    THEN <<[op |-> "save_site_state", domain |-> "example.com", args |-> SiteArgs[1]]>>
    ELSE <<[op |-> "save_site_state", domain |-> "other.com", args |-> SiteArgs[2]],
           [op |-> "record_lineage", entity_type |-> "disk", entity_id |-> "swap",
            action |-> "create"]>>

ProcInit ==
    /\ pc = [p \in Procs |-> "idle"]
    /\ frame = [p \in Procs |-> [call |-> [op |-> "none"]]]

Step(p, from, to, locals) ==
    /\ pc[p] = from
    /\ pc' = [pc EXCEPT ![p] = to]
    /\ frame' = [frame EXCEPT ![p] = locals @@ frame[p]]
    /\ UNCHANGED <<poolVars, uuidCount, lastCall, before, loadVars, installVars>>

\* json.dump and close by p, which holds the file open at pc `from`: its
\* bytes go in at offset 0.  Every other process that has the file open has
\* by now emptied a file that is no longer empty.
DumpStep(p, from, to) ==
    /\ pc[p] = from
    /\ pc' = [pc EXCEPT ![p] = to]
    /\ frame' = [q \in Procs |->
                    IF q # p /\ pc[q] = from
                    THEN [overwritten |-> TRUE] @@ frame[q] ELSE frame[q]]
    /\ UNCHANGED <<poolVars, uuidCount, lastCall, before, loadVars, installVars>>

\* what the file holds once p has written content to it: the content, or,
\* when another process wrote since p opened the file, possibly p's bytes
\* followed by the rest of the other's, which json.load cannot parse
Written(p, content) ==
    IF frame[p].overwritten THEN {Json(content), Truncated} ELSE {Json(content)}

\* save_site_state line 74, or record_lineage's entry: the call begins
PCall(p, call) ==
    /\ IF call.op = "save_site_state"
       THEN Step(p, "idle", "state_loaded",
                 [call |-> call, t |-> now + 1, state |-> load_state(stateFile)])
       ELSE Step(p, "idle", "state_saved",
                 [call |-> call, t |-> now + 1,
                  entry |-> lineage_entry(now + 1, call.entity_type, call.entity_id,
                                          call.action, Dict([size |-> Str("2G")]), None)])
    /\ now' = now + 1
    /\ UNCHANGED <<stateFile, lineageFile>>

\* save_state line 38: open(STATE_FILE, "w")
POpenState(p) ==
    /\ LET f == frame[p]
           old_state == Get(f.state.sites, f.call.domain)
           record == site_record(f.call.domain, f.call.args, old_state, f.t)
       IN  Step(p, "state_loaded", "state_open",
                [state |-> [f.state EXCEPT !.sites = Put(@, f.call.domain, record)],
                 entry |-> lineage_entry(f.t, "site", f.call.domain,
                                         site_action(old_state), old_state, Dict(record)),
                 overwritten |-> FALSE])
    /\ stateFile' = Truncated
    /\ UNCHANGED <<lineageFile, now>>

\* save_state line 39: json.dump and close
PDumpState(p) ==
    /\ DumpStep(p, "state_open", "state_saved")
    /\ stateFile' \in Written(p, save_state(frame[p].state, frame[p].t)[2])
    /\ UNCHANGED <<lineageFile, now>>

\* record_lineage line 386: load_lineage
PLoadLineage(p) ==
    /\ Step(p, "state_saved", "lineage_loaded", [lineage |-> load_lineage(lineageFile)])
    /\ UNCHANGED <<stateFile, lineageFile, now>>

\* save_lineage line 363: open(LINEAGE_FILE, "w")
POpenLineage(p) ==
    /\ Step(p, "lineage_loaded", "lineage_open", [overwritten |-> FALSE])
    /\ lineageFile' = Truncated
    /\ UNCHANGED <<stateFile, now>>

\* save_lineage line 364: json.dump and close; the call returns
PDumpLineage(p) ==
    /\ DumpStep(p, "lineage_open", "done")
    /\ lineageFile' \in Written(p, save_lineage(Append(frame[p].lineage, frame[p].entry))[2])
    /\ UNCHANGED <<stateFile, now>>

ProcNext ==
    \/ \E p \in Procs, i \in 1..2 : i \in DOMAIN ProcCalls(p) /\ PCall(p, ProcCalls(p)[i])
    \/ \E p \in Procs : POpenState(p)
    \/ \E p \in Procs : PDumpState(p)
    \/ \E p \in Procs : PLoadLineage(p)
    \/ \E p \in Procs : POpenLineage(p)
    \/ \E p \in Procs : PDumpLineage(p)

(***************************************************************************)
(* The PHP install flow (php/__init__.py, the loop over versions_to_install)*)
(***************************************************************************)
\* nothing is being installed
NoInstall ==
    [pc |-> "idle", todo |-> <<>>, op_id |-> "", code |-> 0,
     failed |-> {}, succeeded |-> {}, clears |-> 0]

InstallInit == install = NoInstall

\* versions_to_install: one version picked, or all that are not installed,
\* in the order of PHP_VERSIONS
VersionLists ==
    {<<"8.5">>, <<"8.4">>, <<"8.3">>, <<"8.5", "8.4">>, <<"8.5", "8.3">>,
     <<"8.4", "8.3">>, <<"8.5", "8.4", "8.3">>}

\* the "minimal" bundle
BundleExtensions == <<"cli", "fpm", "common">>

\* what run_command returns for apt-get: success, apt's failure code, and
\* 127 when the command is not found
ExitCodes == {0, 100, 127}

\* a store call made by the flow
InstallCalled(call) ==
    /\ now' = now + 1
    /\ lastCall' = call
    /\ before' = [state |-> stateFile, lineage |-> lineageFile]
    /\ UNCHANGED <<poolVars, procVars, loadVars>>

\* lines 374-378: op_id = add_pending_operation("php_install", {...})
InstallRegister ==
    /\ install.pc = "loop" /\ install.todo # <<>>
    /\ LET t == now + 1
           state == load_state(stateFile)
           op_id == Uuid4Prefix(uuidCount + 1)
           data == [version |-> Head(install.todo), extensions |-> BundleExtensions,
                    started_at |-> Iso(t)]
           operation == operation_record(op_id, "php_install", data, t)
       IN  /\ InstallCalled([op |-> "add_pending_operation", type |-> "php_install",
                             data |-> data, returned |-> op_id])
           /\ stateFile' = save_state(
                  [state EXCEPT !.pending_operations = Append(@, operation)], t)
           /\ lineageFile' = record_lineage(lineageFile, t, "operation", op_id,
                                 "start", None, Dict(operation))
           /\ install' = [install EXCEPT !.pc = "registered", !.op_id = op_id]
    /\ uuidCount' = uuidCount + 1

\* lines 381-384: code, stdout, stderr = run_command("sudo apt-get install ...")
InstallRun ==
    /\ install.pc = "registered"
    /\ \E code \in ExitCodes : install' = [install EXCEPT !.pc = "ran", !.code = code]
    /\ UNCHANGED <<poolVars, storeVars, procVars, loadVars>>

\* the effect of complete_pending_operation(op_id) on the two files
InstallCompleteFiles(op_id, t) ==
    LET state == load_state(stateFile)
        i == FirstWithId(state.pending_operations, op_id)
    IN  IF i # 0
        THEN /\ lineageFile' = record_lineage(lineageFile, t, "operation", op_id,
                                   "complete", Dict([status |-> "pending"]),
                                   Dict([status |-> "complete"]))
             /\ stateFile' = save_state(
                    [state EXCEPT !.pending_operations[i] = complete_operation(@, t)], t)
        ELSE /\ stateFile' = save_state(state, t)
             /\ UNCHANGED lineageFile

\* the flow completing the operation whatever apt-get returned
InstallCompleteAlways ==
    /\ install.pc = "ran"
    /\ InstallCalled([op |-> "complete_pending_operation", id |-> install.op_id])
    /\ InstallCompleteFiles(install.op_id, now + 1)
    /\ install' = [install EXCEPT
                      !.pc = "loop", !.todo = Tail(@),
                      !.succeeded = IF install.code = 0 THEN @ \cup {install.op_id} ELSE @,
                      !.failed = IF install.code # 0 THEN @ \cup {install.op_id} ELSE @]
    /\ UNCHANGED uuidCount

\* lines 386-388: if code == 0: complete_pending_operation(op_id)
InstallComplete ==
    /\ install.pc = "ran" /\ install.code = 0
    /\ InstallCalled([op |-> "complete_pending_operation", id |-> install.op_id])
    /\ InstallCompleteFiles(install.op_id, now + 1)
    /\ install' = [install EXCEPT !.pc = "loop", !.todo = Tail(@),
                                  !.succeeded = @ \cup {install.op_id}]
    /\ UNCHANGED uuidCount

\* lines 389-394: else: the packages are tried one by one; the store is not
\* called
InstallRetry ==
    /\ install.pc = "ran" /\ install.code # 0
    /\ install' = [install EXCEPT !.pc = "loop", !.todo = Tail(@),
                                  !.failed = @ \cup {install.op_id}]
    /\ UNCHANGED <<poolVars, storeVars, procVars, loadVars>>

\* clear_completed_operations called once while the flow is under way
InstallClear ==
    /\ install.pc # "idle" /\ install.clears = 0
    /\ InstallCalled([op |-> "clear_completed_operations"])
    /\ LET state == load_state(stateFile)
       IN  stateFile' = save_state(
               [state EXCEPT !.pending_operations =
                    SelectSeq(@, LAMBDA o : o.status # "complete")], now + 1)
    /\ install' = [install EXCEPT !.clears = 1]
    /\ UNCHANGED <<lineageFile, uuidCount>>

InstallNext ==
    \/ InstallRegister
    \/ InstallRun
    \/ InstallComplete
    \/ InstallRetry
    \/ InstallClear

(***************************************************************************)
(* Reading the files back: load_state and load_lineage on whatever is on *)
(* disk, including files the program did not write                         *)
(***************************************************************************)
\* a file whose bytes are not text in the locale's encoding
Undecodable == <<"undecodable">>
\* a file open() refuses (permissions, a directory in its place)
Unreadable == <<"unreadable">>

\* lines 25-31 and 348-354: the file is opened in text mode and parsed;
\* json.JSONDecodeError and IOError give the default.  Bytes the codec
\* rejects raise UnicodeDecodeError, which neither names; under a
\* single-byte locale they decode to text that is not JSON.
read_outcomes(file, default) ==
    CASE file[1] = "json" -> {Returned(file[2])}
      [] file[1] = "undecodable" -> {Raised("UnicodeDecodeError"), Returned(default)}
      [] OTHER -> {Returned(default)}

NotLoaded == [fn |-> "none"]

\* the state files a store can be found with
StateFiles ==
    {Absent, Truncated, Undecodable, Unreadable, Json(get_default_state)}
    \cup {save_state([get_default_state EXCEPT
                         !.sites = Put(@, d, site_record(d, SiteArgs[i], None, 1))], 1) :
            d \in Domains, i \in DOMAIN SiteArgs}

\* the lineage files a store can be found with
LineageFiles ==
    {Absent, Truncated, Undecodable, Unreadable, Json(<<>>)}
    \cup {record_lineage(Absent, 1, "site", d, "delete", None, None) : d \in Domains}

LoadInit == loaded = NotLoaded

LoadState ==
    /\ \E outcome \in read_outcomes(stateFile, get_default_state) :
          loaded' = [fn |-> "load_state", outcome |-> outcome]
    /\ UNCHANGED <<poolVars, storeVars, procVars, installVars>>

LoadLineage ==
    /\ \E outcome \in read_outcomes(lineageFile, <<>>) :
          loaded' = [fn |-> "load_lineage", outcome |-> outcome]
    /\ UNCHANGED <<poolVars, storeVars, procVars, installVars>>

LoadNext == LoadState \/ LoadLineage

\* a store found on disk in any condition
FoundInit ==
    /\ PoolInit /\ ProcInit /\ LoadInit /\ InstallInit
    /\ stateFile \in StateFiles
    /\ lineageFile \in LineageFiles
    /\ now = 1
    /\ uuidCount = 0
    /\ lastCall = [op |-> "none"]
    /\ before = [state |-> Absent, lineage |-> Absent]

(***************************************************************************)
(* A long log: one process calling record_lineage on a log that is close   *)
(* to the cap of save_lineage, as a store that has been in use for a while *)
(***************************************************************************)
\* how many entries beyond the cap are recorded
MaxOver == 3

\* entries already in the log when the process starts
Recorded == LineageCap - 2

TestEntities == {"entity_0", "entity_1", "entity_2"}

\* the k-th entry recorded, as the tests record them
test_entry(k, entity_id) ==
    lineage_entry(k, "test", entity_id, "create", None, Dict(EmptyDict))

\* the store after `Recorded` record_lineage calls on a fresh directory
LongInit ==
    /\ PoolInit /\ ProcInit /\ LoadInit /\ InstallInit
    /\ stateFile = Json(get_default_state)
    /\ lineageFile = Json([k \in 1..Recorded |-> test_entry(k, "entity_0")])
    /\ now = Recorded
    /\ uuidCount = 0
    /\ lastCall = [op |-> "none"]
    /\ before = [state |-> Absent, lineage |-> Absent]

\* record_lineage("test", entity_id, "create", None, {})
RecordTestLineage(entity_id) ==
    /\ now < LineageCap + MaxOver
    /\ now' = now + 1
    /\ lastCall' = [op |-> "record_lineage", entity_type |-> "test",
                    entity_id |-> entity_id, action |-> "create"]
    /\ before' = [state |-> stateFile, lineage |-> lineageFile]
    /\ lineageFile' = record_lineage(lineageFile, now + 1, "test", entity_id, "create",
                          None, Dict(EmptyDict))
    /\ UNCHANGED <<stateFile, uuidCount, poolVars, procVars, loadVars, installVars>>

RetentionNext == \E entity_id \in TestEntities : RecordTestLineage(entity_id)

\* the flow about to install the versions picked, on a fresh store
InstallFlowInit ==
    /\ PoolInit /\ StoreInit /\ ProcInit /\ LoadInit
    /\ install \in {[NoInstall EXCEPT !.pc = "loop", !.todo = versions] :
                       versions \in VersionLists}

Init == PoolInit /\ StoreInit /\ ProcInit /\ LoadInit /\ InstallInit

Spec == Init /\ [][Next]_vars

SpecPool == Init /\ [][PoolNext]_vars

SpecProcs == Init /\ [][ProcNext]_vars

SpecLoad == FoundInit /\ [][LoadNext]_vars

SpecRetention == LongInit /\ [][RetentionNext]_vars

SpecInstall == InstallFlowInit /\ [][InstallNext]_vars

(***************************************************************************)
(* PoolSizer properties                                                    *)
(***************************************************************************)
\* the memory sizes of the call, in kB (the byte counts are 1024 times these)
RamKbOf(sp) == sp["ram_total"].sign * BigToInt(sp["ram_total"].m)
SwapKbOf(sp) == sp["swap_total"].sign * BigToInt(sp["swap_total"].m)

ValidSpecs(sp) == RamKbOf(sp) > 0 /\ SwapKbOf(sp) >= 0 /\ sp["cpu_count"] >= 1
ValidCall == poolPc = "called" /\ ValidSpecs(specs) /\ avg_process_mb > 0

\* C6: for valid specs and avg_process_mb > 0 the call returns a dict whose
\* pm.max_children lies in 2..500.
C6_MaxChildrenClamped ==
    ValidCall =>
        /\ settings.kind = "returned"
        /\ settings.value["pm.max_children"] >= 2
        /\ settings.value["pm.max_children"] <= 500

\* C6 witness: a valid call whose unclamped quotient is above the cap (128 GB
\* of RAM at 1 MB a process) and one returning exactly the cap.
C6_Witness ==
    /\ ValidCall
    /\ settings.kind = "returned"
    /\ settings.value["pm.max_children"] = 500
    /\ settings.value["available_for_php_mb"] > 500 * avg_process_mb

\* C7: for valid specs and avg_process_mb > 0, in every size class and for
\* every cpu_count, min_spare_servers <= start_servers <= max_children / 2
\* and max_spare_servers <= max_children / 2.
C7_SpareServersSane ==
    ValidCall =>
        /\ settings.kind = "returned"
        /\ settings.value["pm.min_spare_servers"] <= settings.value["pm.start_servers"]
        /\ 2 * settings.value["pm.start_servers"] <= settings.value["pm.max_children"]
        /\ 2 * settings.value["pm.max_spare_servers"] <= settings.value["pm.max_children"]

\* C7 witness: a valid call on a large or enterprise server where the tier's
\* start_servers and max_spare figures both exceeded max_children / 2 and
\* were cut.
C7_Witness ==
    /\ ValidCall
    /\ settings.kind = "returned"
    /\ settings.value["server_size"] \in {"large", "enterprise"}
    /\ 2 * Max(4, specs["cpu_count"] * 2) > settings.value["pm.max_children"]
    /\ 2 * Max(6, specs["cpu_count"] * 4) > settings.value["pm.max_children"]

InvalidSpecs(sp) == RamKbOf(sp) <= 0 \/ SwapKbOf(sp) < 0 \/ sp["cpu_count"] = 0

\* C8: a call with invalid specs (ram_total zero or negative, negative
\* swap_total, or cpu_count zero) fails with InvalidSpecs instead of
\* returning a settings dict.
C8_InvalidSpecsRaise ==
    (poolPc = "called" /\ InvalidSpecs(specs) /\ avg_process_mb > 0)
        => settings = Raised("InvalidSpecs")

\* C9: server_size is "small" iff ram_mb <= 1024, "medium" iff
\* 1024 < ram_mb <= 4096, "large" iff 4096 < ram_mb <= 16384, "enterprise"
\* iff ram_mb > 16384; pm is "ondemand" exactly for small and "dynamic"
\* otherwise.
C9_TierBoundaries ==
    (poolPc = "called" /\ settings.kind = "returned") =>
        LET kb == RamKbOf(specs)
            size == settings.value["server_size"]
        IN  /\ (size = "small") <=> (kb <= 1024 * 1024)
            /\ (size = "medium") <=> (1024 * 1024 < kb /\ kb <= 4096 * 1024)
            /\ (size = "large") <=> (4096 * 1024 < kb /\ kb <= 16384 * 1024)
            /\ (size = "enterprise") <=> (kb > 16384 * 1024)
            /\ (settings.value["pm"] = "ondemand") <=> (size = "small")
            /\ (settings.value["pm"] = "dynamic") <=> (size # "small")

\* C9 witness: the four boundary sizes 1024, 1025, 16384 and 16385 MB are
\* each called; this one is 16384 MB, classed large with pm dynamic.
C9_Witness ==
    /\ poolPc = "called"
    /\ settings.kind = "returned"
    /\ RamKbOf(specs) = 16384 * 1024
    /\ settings.value["server_size"] = "large"
    /\ settings.value["pm"] = "dynamic"

\* the reserved percentage of the claim's table, by RAM size in kB
ClaimReservedPct(kb) ==
    IF kb <= 1024 * 1024 THEN 40
    ELSE IF kb <= 4096 * 1024 THEN 30
    ELSE IF kb <= 16384 * 1024 THEN 25
    ELSE 20

\* floor((ram_mb * (1 - r) + 0.25 * swap_mb) / avg) in exact arithmetic:
\* (ram_kb * (100 - pct) + 25 * swap_kb) / (102400 * avg), rounded down
ExactMaxChildren(ram_kb, swap_kb, avg) ==
    LET num == BigAdd(BigMul(BigFromInt(ram_kb), BigFromInt(100 - ClaimReservedPct(ram_kb))),
                      BigMul(BigFromInt(swap_kb), BigFromInt(25)))
        mb  == BigNorm(BigDivRem(num, 102400).q)
    IN  BigToInt(BigNorm(BigDivRem(mb, avg).q))

\* C10: for every valid input pm.max_children equals
\* clamp(floor((ram_mb * (1 - r) + 0.25 * swap_mb) / avg_process_mb), 2, 500)
\* with r the reserved fraction of the size class.
C10_MaxChildrenFormula ==
    ValidCall =>
        /\ settings.kind = "returned"
        /\ settings.value["pm.max_children"] =
              Max(2, Min(ExactMaxChildren(RamKbOf(specs), SwapKbOf(specs), avg_process_mb), 500))

(***************************************************************************)
(* PoolSizer: relations between two calls                                  *)
(***************************************************************************)
\* the settings dict of a call that returns
ResultOf(sp, avg) == calculate_fpm_pool_settings(sp, avg).value

\* the same specs with no swap
WithoutSwap(sp) == [sp EXCEPT !["swap_total"] = KbToBytes(0)]

\* C11: with the specs held fixed, a larger avg_process_mb (both > 0) never
\* gives a larger pm.max_children.
C11_MonotoneInProcessSize ==
    (poolPc = "called" /\ avg_process_mb > 0)
        => \A b \in AvgProcessMb :
              b > avg_process_mb
                  => ResultOf(specs, b)["pm.max_children"]
                        <= settings.value["pm.max_children"]

\* a call whose max_children really drops for some larger per-process size
C11_Witness ==
    /\ poolPc = "called" /\ avg_process_mb > 0 /\ ValidSpecs(specs)
    /\ \E b \in AvgProcessMb :
          /\ b > avg_process_mb
          /\ ResultOf(specs, b)["pm.max_children"] < settings.value["pm.max_children"]
          /\ ResultOf(specs, b)["pm.max_children"] > 2

\* C12: with ram_total, cpu_count and avg_process_mb held fixed, a call with
\* swap_total > 0 reports available_for_php_mb and pm.max_children no smaller
\* than the call with swap_total = 0 does.
C12_SwapNeverDecreases ==
    (poolPc = "called" /\ avg_process_mb > 0 /\ SwapKbOf(specs) > 0)
        => /\ settings.value["available_for_php_mb"]
                >= ResultOf(WithoutSwap(specs), avg_process_mb)["available_for_php_mb"]
           /\ settings.value["pm.max_children"]
                >= ResultOf(WithoutSwap(specs), avg_process_mb)["pm.max_children"]

\* a call where the swap buffer raises both figures
C12_Witness ==
    /\ poolPc = "called" /\ avg_process_mb > 0 /\ ValidSpecs(specs)
    /\ SwapKbOf(specs) > 0
    /\ settings.value["available_for_php_mb"]
          > ResultOf(WithoutSwap(specs), avg_process_mb)["available_for_php_mb"]
    /\ settings.value["pm.max_children"]
          > ResultOf(WithoutSwap(specs), avg_process_mb)["pm.max_children"]

(***************************************************************************)
(* LineageStore properties                                                 *)
(***************************************************************************)
StateNow == load_state(stateFile)
LogNow == load_lineage(lineageFile)
StateBefore == load_state(before.state)
LogBefore == load_lineage(before.lineage)

\* get_entity_history's filter, as indices into the log
HistoryIndices(log, entity_type, entity_id) ==
    {i \in DOMAIN log : log[i].entity_type = entity_type /\ log[i].entity_id = entity_id}

SetMax(S) == CHOOSE x \in S : \A y \in S : y <= x

\* last-write-wins fold of an entity's entries: the new_state of its latest
\* entry, None when it has no entry
Fold(log, entity_type, entity_id) ==
    LET idx == HistoryIndices(log, entity_type, entity_id)
    IN  IF idx = {} THEN None ELSE log[SetMax(idx)].new_state

\* the entity's record in the state table, None when it has none
Current(state, entity_type, entity_id) ==
    CASE entity_type = "site" -> Get(state.sites, entity_id)
      [] entity_type = "php" -> Get(state.php, entity_id)
      [] OTHER -> IF FirstWithId(state.pending_operations, entity_id) = 0 THEN None
                  ELSE Dict(state.pending_operations[
                                FirstWithId(state.pending_operations, entity_id)])

EntityIds == Domains \cup Versions \cup {Uuid4Prefix(n) : n \in 1..uuidCount}

Reconstructible(state, log) ==
    \A entity_type \in {"site", "php", "operation"}, entity_id \in EntityIds :
        Fold(log, entity_type, entity_id) = Current(state, entity_type, entity_id)

ListedOps == {"save_site_state", "update_site_ssl", "delete_site_state",
              "save_php_state", "add_php_extensions", "add_pending_operation",
              "complete_pending_operation"}

\* C1: after any of the seven mutating operations, for every entity, folding
\* its lineage entries last-write-wins gives exactly its current record in
\* the state table (stated as the step: if the fold agreed with the table
\* when the call began, it agrees when it returns).
C1_HistoryReconstructs ==
    (lastCall.op \in ListedOps /\ Reconstructible(StateBefore, LogBefore))
        => Reconstructible(StateNow, LogNow)

\* the site record with updated_at left out
WithoutUpdatedAt(record) == [k \in DOMAIN record \ {"updated_at"} |-> record[k]]

\* C2: save_site_state called twice with identical arguments for a domain
\* not present before leaves, after the second call, the record of the first
\* call apart from updated_at, and the log has grown by exactly two entries
\* for the domain: "create" with old_state null, then "update" with
\* old_state the record after the first call.
C2_RepeatedSaveSite ==
    [][(/\ lastCall.op = "save_site_state"
        /\ lastCall' = lastCall
        /\ lastCall.domain \notin DOMAIN StateBefore.sites)
       => LET d == lastCall.domain
              first == StateNow.sites[d]
              log == load_lineage(lineageFile')
              n == Len(log)
          IN  /\ d \in DOMAIN load_state(stateFile').sites
              /\ WithoutUpdatedAt(load_state(stateFile').sites[d]) = WithoutUpdatedAt(first)
              /\ n = Len(LogBefore) + 2
              /\ HistoryIndices(log, "site", d) \ DOMAIN LogBefore = {n - 1, n}
              /\ log[n - 1].action = "create"
              /\ log[n - 1].old_state = None
              /\ log[n - 1].new_state = Dict(first)
              /\ log[n].action = "update"
              /\ log[n].old_state = Dict(first)
              /\ log[n].new_state = Dict(load_state(stateFile').sites[d])]_vars

\* C2 witness: the last two entries of the log are a create and an update of
\* the domain of the last call, the create holding the record these very
\* arguments make on a store without the domain.
C2_Witness ==
    /\ lastCall.op = "save_site_state"
    /\ Len(LogNow) >= 2
    /\ LogNow[Len(LogNow)].action = "update"
    /\ LogNow[Len(LogNow)].entity_id = lastCall.domain
    /\ LogNow[Len(LogNow) - 1].action = "create"
    /\ LogNow[Len(LogNow) - 1].new_state =
          Dict(site_record(lastCall.domain, lastCall.args, None, now - 1))
    /\ StateNow.sites[lastCall.domain]["updated_at"] = Iso(now)
    /\ StateNow.sites[lastCall.domain]["created_at"] # Iso(now)

ConsecutivePhpSaves ==
    /\ lastCall.op = "save_php_state"
    /\ lastCall'.op = "save_php_state"
    /\ lastCall'.version = lastCall.version
    /\ vars' # vars

EffectPresent(call) ==
    IF call.op = "save_site_state"
    THEN /\ stateFile[1] = "json" /\ lineageFile[1] = "json"
         /\ call.domain \in DOMAIN StateNow.sites
         /\ HistoryIndices(LogNow, "site", call.domain) # {}
    ELSE /\ lineageFile[1] = "json"
         /\ HistoryIndices(LogNow, call.entity_type, call.entity_id) # {}

\* C4: when two processes each run a mutating store call with their file
\* reads and writes interleaved, the final state table and lineage log hold
\* the effects of both calls.
C4_NoLostUpdate ==
    (\A p \in Procs : pc[p] = "done") => \A p \in Procs : EffectPresent(frame[p].call)

CompleteEntries(log, op_id) ==
    {i \in HistoryIndices(log, "operation", op_id) : log[i].action = "complete"}

\* C5: complete_pending_operation on an operation already "complete" leaves
\* its record (status and completed_at) unchanged and appends no lineage
\* entry, so an operation has at most one "complete" entry in the log.
C5_CompleteIdempotent ==
    (/\ lastCall.op = "complete_pending_operation"
     /\ FirstWithId(StateBefore.pending_operations, lastCall.id) # 0
     /\ Current(StateBefore, "operation", lastCall.id)[2].status = "complete")
    => /\ Current(StateNow, "operation", lastCall.id)
            = Current(StateBefore, "operation", lastCall.id)
       /\ LogNow = LogBefore
       /\ Cardinality(CompleteEntries(LogNow, lastCall.id)) <= 1

\* the type arguments get_pending_operations is asked with
OpTypeArgs == <<None, Str("php_install"), Str("ssl_provision")>>

\* s is t with some elements left out, order kept
IsSubSeq(s, t) ==
    \E f \in [DOMAIN s -> DOMAIN t] :
        /\ \A i \in DOMAIN s : s[i] = t[f[i]]
        /\ \A i, j \in DOMAIN s : i < j => f[i] < f[j]

IdsOf(ops) == {ops[i].id : i \in DOMAIN ops}

\* whether get_pending_operations(op_type) has to return op
Wanted(op_type, op) ==
    /\ op.status = "pending"
    /\ op_type # None => op.type = op_type[2]

\* C13: get_pending_operations(op_type) returns exactly the operations of the
\* state table with status "pending" (of that type, when one is given), in
\* insertion order; an operation is in the result from the
\* add_pending_operation that created it (as the last element) until
\* complete_pending_operation is called with its id, and no call but these
\* two changes the result.
C13_PendingListing ==
    \A k \in DOMAIN OpTypeArgs :
        LET result == get_pending_operations(stateFile, OpTypeArgs[k])
            earlier == get_pending_operations(before.state, OpTypeArgs[k])
            all == StateNow.pending_operations
        IN  /\ IsSubSeq(result, all)
            /\ \A i \in DOMAIN all :
                  Wanted(OpTypeArgs[k], all[i]) <=> all[i] \in Range(result)
            /\ Len(result) = Cardinality({i \in DOMAIN all :
                                            Wanted(OpTypeArgs[k], all[i])})
            /\ CASE lastCall.op = "add_pending_operation" ->
                      IF OpTypeArgs[k] = None \/ OpTypeArgs[k] = Str(lastCall.type)
                      THEN /\ Len(result) = Len(earlier) + 1
                           /\ SubSeq(result, 1, Len(earlier)) = earlier
                           /\ result[Len(result)].id = lastCall.returned
                           /\ result[Len(result)].type = lastCall.type
                      ELSE result = earlier
                 [] lastCall.op = "complete_pending_operation" ->
                      /\ lastCall.id \notin IdsOf(result)
                      /\ result = SelectSeq(earlier, LAMBDA op : op.id # lastCall.id)
                 [] OTHER -> result = earlier

\* two operations were added and the first one completed: the listing holds
\* the second only
C13_Witness ==
    /\ lastCall.op = "complete_pending_operation"
    /\ lastCall.id \in IdsOf(get_pending_operations(before.state, None))
    /\ Len(get_pending_operations(stateFile, None)) = 1
    /\ Len(StateNow.pending_operations) = 2

\* the keys save_site_state writes on every call, whatever its arguments
SiteKeys == {"domain", "type", "ssl_enabled", "port", "document_root", "php_version",
             "enabled", "created_at", "updated_at"}

\* the keys of the previous record that a save_site_state call with arguments
\* a does not supply: the optional ones left at None, and the keys an earlier
\* extra map added that this call's extra map does not name
NotSupplied(a, old) ==
    {k \in {"port", "document_root", "php_version"} : a[k] = None}
    \cup ((DOMAIN old \ SiteKeys) \ (IF a.extra = None THEN {} ELSE DOMAIN a.extra[2]))

\* C14: save_site_state on a domain that already has a record merges into it:
\* every field of the previous record that the call does not supply keeps its
\* previous value.
C14_SaveSiteMerges ==
    (lastCall.op = "save_site_state" /\ lastCall.domain \in DOMAIN StateBefore.sites)
        => LET old == StateBefore.sites[lastCall.domain]
               new == StateNow.sites[lastCall.domain]
           IN  \A k \in NotSupplied(lastCall.args, old) :
                  k \in DOMAIN new /\ new[k] = old[k]

\* C15: a save_site_state or update_site_ssl call on a domain that has a
\* record leaves the record's created_at as it was, whatever the arguments
\* (so, with no delete in between, it stays the value the creating call set).
C15_CreatedAtPreserved ==
    (/\ lastCall.op \in {"save_site_state", "update_site_ssl"}
     /\ lastCall.domain \in DOMAIN StateBefore.sites)
        => /\ lastCall.domain \in DOMAIN StateNow.sites
           /\ StateNow.sites[lastCall.domain].created_at
                = StateBefore.sites[lastCall.domain].created_at

\* a record without the keys in ks
Without(record, ks) == [k \in DOMAIN record \ ks |-> record[k]]

\* everything in the state table but the record of one domain
OtherRecords(state, domain) ==
    [sites |-> Del(state.sites, domain), php |-> state.php,
     pending_operations |-> state.pending_operations, version |-> state.version]

\* the log grew by exactly one entry, for ("site", domain), with that action
\* and those snapshots
OneSiteEntry(domain, action, old_state, new_state) ==
    /\ Len(LogNow) = Len(LogBefore) + 1
    /\ SubSeq(LogNow, 1, Len(LogBefore)) = LogBefore
    /\ LET e == LogNow[Len(LogNow)]
       IN  /\ e.entity_type = "site" /\ e.entity_id = domain /\ e.action = action
           /\ e.old_state = old_state /\ e.new_state = new_state

UpdateOnKnown ==
    lastCall.op = "update_site_ssl" /\ lastCall.domain \in DOMAIN StateBefore.sites

\* C16 as stated: update_site_ssl(domain, v) on a known domain changes only
\* the ssl_enabled field of the record, every other field and every other
\* record staying as it was, and appends one "ssl_update" entry with
\* old_state {ssl_enabled: previous} and new_state {ssl_enabled: v}.
C16_UpdateSslOnlySsl ==
    UpdateOnKnown
        => LET d == lastCall.domain
           IN  /\ d \in DOMAIN StateNow.sites
               /\ StateNow.sites[d].ssl_enabled = Bool(lastCall.ssl_enabled)
               /\ Without(StateNow.sites[d], {"ssl_enabled"})
                    = Without(StateBefore.sites[d], {"ssl_enabled"})
               /\ OtherRecords(StateNow, d) = OtherRecords(StateBefore, d)
               /\ OneSiteEntry(d, "ssl_update",
                      Dict([ssl_enabled |-> StateBefore.sites[d].ssl_enabled]),
                      Dict([ssl_enabled |-> Bool(lastCall.ssl_enabled)]))

\* C16 amended: the same, except that the record's updated_at is refreshed
\* too; all fields other than ssl_enabled and updated_at are unchanged.
C16_UpdateSslFrame ==
    UpdateOnKnown
        => LET d == lastCall.domain
           IN  /\ d \in DOMAIN StateNow.sites
               /\ StateNow.sites[d].ssl_enabled = Bool(lastCall.ssl_enabled)
               /\ StateNow.sites[d].updated_at = Iso(now)
               /\ Without(StateNow.sites[d], {"ssl_enabled", "updated_at"})
                    = Without(StateBefore.sites[d], {"ssl_enabled", "updated_at"})
               /\ OtherRecords(StateNow, d) = OtherRecords(StateBefore, d)
               /\ OneSiteEntry(d, "ssl_update",
                      Dict([ssl_enabled |-> StateBefore.sites[d].ssl_enabled]),
                      Dict([ssl_enabled |-> Bool(lastCall.ssl_enabled)]))

\* update_site_ssl changed ssl_enabled of a site that has a port, or a key of
\* an extra map, to keep
C16_Witness ==
    /\ UpdateOnKnown
    /\ StateBefore.sites[lastCall.domain].ssl_enabled # Bool(lastCall.ssl_enabled)
    /\ \/ StateBefore.sites[lastCall.domain].port # None
       \/ "basic_auth" \in DOMAIN StateBefore.sites[lastCall.domain]

\* get_site_state(domain): the record, or None
get_site_state(file, domain) == Get(load_state(file).sites, domain)

\* list_sites_state(): the sites table
list_sites_state(file) == load_state(file).sites

\* Python's seq[start:] for any integer start: a negative start counts from
\* the end, and both are cut to the sequence's bounds
SliceFrom(seq, start) ==
    LET first == IF start < 0 THEN Max(Len(seq) + start, 0) ELSE Min(start, Len(seq))
    IN  SubSeq(seq, first + 1, Len(seq))

\* get_recent_changes(limit): lineage[-limit:]
get_recent_changes(file, limit) == SliceFrom(load_lineage(file), 0 - limit)

\* get_entity_history(entity_type, entity_id): the entity's entries, in order
get_entity_history(file, entity_type, entity_id) ==
    SelectSeq(load_lineage(file),
              LAMBDA e : e.entity_type = entity_type /\ e.entity_id = entity_id)

ActionsOf(entries) == [i \in DOMAIN entries |-> entries[i].action]

DeleteOnKnown ==
    lastCall.op = "delete_site_state" /\ lastCall.domain \in DOMAIN StateBefore.sites

\* C17: delete_site_state(domain) on a known domain removes the domain from
\* the sites table (get_site_state gives None, list_sites_state no longer
\* holds it, the other sites stay) and appends one "delete" entry whose
\* old_state is the full prior record and whose new_state is null; after
\* save then delete on an empty store the sites map is empty and the
\* domain's history has the actions create, delete.
C17_DeleteRemovesAndLogs ==
    DeleteOnKnown
        => LET d == lastCall.domain
           IN  /\ get_site_state(stateFile, d) = None
               /\ d \notin DOMAIN list_sites_state(stateFile)
               /\ list_sites_state(stateFile) = Del(list_sites_state(before.state), d)
               /\ OneSiteEntry(d, "delete", Dict(StateBefore.sites[d]), None)
               /\ (now = 2 /\ Len(LogNow) = 2)
                     => /\ list_sites_state(stateFile) = EmptyDict
                        /\ ActionsOf(get_entity_history(lineageFile, "site", d))
                             = <<"create", "delete">>

\* save_site_state(d) then delete_site_state(d) on an empty store
C17_Witness ==
    /\ DeleteOnKnown
    /\ now = 2 /\ Len(LogNow) = 2
    /\ ActionsOf(get_entity_history(lineageFile, "site", lastCall.domain))
          = <<"create", "delete">>

\* C18: update_site_ssl and delete_site_state on a domain that is not in the
\* sites table return normally, write neither file (the state table is as it
\* was) and append no lineage entry.
C18_UnknownDomainNoOp ==
    (/\ lastCall.op \in {"update_site_ssl", "delete_site_state"}
     /\ lastCall.domain \notin DOMAIN StateBefore.sites)
        => /\ stateFile = before.state
           /\ lineageFile = before.lineage
           /\ StateNow = StateBefore
           /\ LogNow = LogBefore

\* such a call made while the table holds another site
C18_Witness ==
    /\ lastCall.op \in {"update_site_ssl", "delete_site_state"}
    /\ lastCall.domain \notin DOMAIN StateBefore.sites
    /\ DOMAIN StateNow.sites # {}
    /\ Len(LogNow) > 0

\* C19: complete_pending_operation(id) with an id that no operation of the
\* state table has returns normally, writes nothing to the state file and
\* appends no lineage entry.
C19_UnknownIdNoWrite ==
    (/\ lastCall.op = "complete_pending_operation"
     /\ lastCall.id \notin IdsOf(StateBefore.pending_operations))
        => /\ stateFile = before.state
           /\ lineageFile = before.lineage

Damaged(file) == file[1] \in {"truncated", "undecodable", "unreadable"}

\* C20: load_state on a state file that exists but is corrupt or cannot be
\* read returns the empty default state without raising, and load_lineage on
\* such a lineage file returns an empty log without raising.
C20_ReadFailureFallback ==
    /\ (loaded.fn = "load_state" /\ Damaged(stateFile))
          => loaded.outcome = Returned(get_default_state)
    /\ (loaded.fn = "load_lineage" /\ Damaged(lineageFile))
          => loaded.outcome = Returned(<<>>)

\* the limits get_recent_changes is asked with: the CLI's 30, the default
\* 50, the test's 5 and the small ones around the log's length
Limits == {0, 1, 2, 3, 5, 30, 50}

\* C21: get_recent_changes(limit) returns exactly the last min(limit, n)
\* entries of the n-entry log, in the log's order, for every limit >= 0 (an
\* empty list when limit is 0).
C21_RecentChanges ==
    \A limit \in Limits :
        LET n == Len(LogNow)
            k == Min(limit, n)
        IN  get_recent_changes(lineageFile, limit) = SubSeq(LogNow, n - k + 1, n)

\* the extensions the state table holds for a version, none if it has no record
StoredExtensions(state, version) ==
    IF version \in DOMAIN state.php THEN state.php[version].extensions ELSE <<>>

\* C22: after add_php_extensions(version, E) the extensions stored for the
\* version are, as a set, those stored before the call together with E, each
\* listed once; none recorded earlier is lost.
C22_AddExtensionsUnion ==
    lastCall.op = "add_php_extensions"
        => LET stored == StoredExtensions(StateNow, lastCall.version)
               earlier == StoredExtensions(StateBefore, lastCall.version)
           IN  /\ lastCall.version \in DOMAIN StateNow.php
               /\ Range(stored) = Range(earlier) \cup Range(lastCall.extensions)
               /\ Len(stored) = Cardinality(Range(stored))

\* add_php_extensions brought a new extension to a version that already had
\* a different one
C22_Witness ==
    /\ lastCall.op = "add_php_extensions"
    /\ Range(StoredExtensions(StateBefore, lastCall.version)) # {}
    /\ Range(lastCall.extensions) \ Range(StoredExtensions(StateBefore, lastCall.version)) # {}
    /\ Range(StoredExtensions(StateBefore, lastCall.version)) \ Range(lastCall.extensions) # {}

\* the three kinds of entity the state table holds
Entities(state) ==
    [sites |-> state.sites, php |-> state.php,
     pending_operations |-> state.pending_operations]

MutatingOps == ListedOps \cup {"clear_completed_operations"}

\* C23: a store operation that changes a site record, a php record or the
\* pending-operations list appends exactly one lineage entry, and one that
\* changes none of them appends none.
C23_OneEntryPerMutation ==
    lastCall.op \in MutatingOps
        => IF Entities(StateNow) # Entities(StateBefore)
           THEN /\ Len(LogNow) = Len(LogBefore) + 1
                /\ SubSeq(LogNow, 1, Len(LogBefore)) = LogBefore
           ELSE LogNow = LogBefore

\* the persisted log holds an entry whose after-snapshot is that site record
LoggedSite(domain, record) ==
    \E i \in DOMAIN LogNow :
        /\ LogNow[i].entity_type = "site" /\ LogNow[i].entity_id = domain
        /\ LogNow[i].new_state = Dict(record)

\* C24: a mutating operation persists its state-table update and its lineage
\* entry as one unit.  A process can stop wherever its pc stands, so at every
\* reachable point the persisted state table holds a site record only if the
\* persisted log holds its entry, and the log holds a site's entry only if
\* the state table holds that record.
C24_AtomicPersist ==
    \A domain \in Domains :
        /\ domain \in DOMAIN StateNow.sites
              => LoggedSite(domain, StateNow.sites[domain])
        /\ (\E i \in DOMAIN LogNow :
                LogNow[i].entity_type = "site" /\ LogNow[i].entity_id = domain)
              => domain \in DOMAIN StateNow.sites

\* C25: no load_state or load_lineage of one process reads a file another
\* process has started but not finished writing: what a load step reads is
\* never an emptied or partly written file.
C25_NoPartialRead ==
    [][\A p \in Procs :
          /\ (pc[p] = "idle" /\ pc'[p] = "state_loaded") => stateFile # Truncated
          /\ (pc[p] = "state_saved" /\ pc'[p] = "lineage_loaded")
                => lineageFile # Truncated]_vars

\* C26: after n record_lineage calls by one process the persisted log holds
\* min(n, 1000) entries, never more than 1000, and they are the last
\* min(n, 1000) entries recorded, in recording order (the k-th call stamps
\* its entry with tick k); the state table is left alone.
C26_Retention ==
    /\ Len(LogNow) = Min(now, LineageCap)
    /\ Len(LogNow) <= 1000
    /\ \A i \in DOMAIN LogNow : LogNow[i].timestamp = Iso(now - Len(LogNow) + i)
    /\ lastCall.op = "record_lineage"
          => /\ LogNow[Len(LogNow)]
                  = test_entry(now, lastCall.entity_id)
             /\ SubSeq(LogNow, 1, Len(LogNow) - 1)
                  = SubSeq(LogBefore, Len(LogBefore) - Len(LogNow) + 2, Len(LogBefore))
             /\ stateFile = before.state
    /\ StateNow = get_default_state

\* more than 1000 entries have been recorded and the oldest are gone
C26_Witness ==
    /\ lastCall.op = "record_lineage"
    /\ now > LineageCap + 1
    /\ Len(LogNow) = LineageCap
    /\ LogNow[1].timestamp = Iso(now - LineageCap + 1)

\* C27: the log is append-only: after every operation of the state module
\* the persisted log is the log before it (the cap is far from reached)
\* followed by what the operation appended; no entry is edited, moved or
\* removed.
C27_AppendOnly ==
    lastCall.op # "none"
        => /\ Len(LogNow) >= Len(LogBefore)
           /\ SubSeq(LogNow, 1, Len(LogBefore)) = LogBefore

\* C28: a pending-operation record is never deleted: every operation the
\* state table held before a call of the state module is still in
\* pending_operations after it, pending or complete.
C28_OperationsKept ==
    \A i \in DOMAIN StateBefore.pending_operations :
        \E j \in DOMAIN StateNow.pending_operations :
            /\ StateNow.pending_operations[j].id = StateBefore.pending_operations[i].id
            /\ StateNow.pending_operations[j].status \in {"pending", "complete"}

PendingIn(state) == SelectSeq(state.pending_operations, LAMBDA op : op.status = "pending")

\* the ids the log has a "complete" entry for, or the state table holds as
\* complete
CompletedIds ==
    {LogNow[i].entity_id : i \in {j \in DOMAIN LogNow : LogNow[j].action = "complete"}}
    \cup {op.id : op \in {o \in Range(StateNow.pending_operations) : o.status = "complete"}}

\* C29: an operation stays "pending" until complete_pending_operation is
\* called with its id: no other store call changes it.  The PHP install flow
\* completes the operation it registered only when apt-get exited with 0, so
\* the operation of a failed install is still returned by
\* get_pending_operations and is never completed by the flow.
C29_PendingUntilCompleted ==
    /\ \A i \in DOMAIN PendingIn(StateBefore) :
          LET op == PendingIn(StateBefore)[i]
          IN  (lastCall.op = "complete_pending_operation" /\ lastCall.id = op.id)
              \/ op \in Range(PendingIn(StateNow))
    /\ \A op_id \in install.failed :
          /\ op_id \in IdsOf(get_pending_operations(stateFile, Str("php_install")))
          /\ op_id \in IdsOf(get_pending_operations(stateFile, None))
          /\ op_id \notin CompletedIds
    /\ install.pc # "idle" => CompletedIds \subseteq install.succeeded

\* the flow has gone through its versions: one install failed, one succeeded
C29_Witness ==
    /\ install.pc = "loop" /\ install.todo = <<>>
    /\ install.failed # {} /\ install.succeeded # {}
    /\ install.failed \subseteq IdsOf(get_pending_operations(stateFile, Str("php_install")))

\* the call the claim is about: some RAM, at least one CPU, a positive
\* per-process size; the swap figure is whatever was read
AcceptableCall ==
    /\ poolPc = "called"
    /\ RamKbOf(specs) > 0
    /\ specs["cpu_count"] >= 1
    /\ avg_process_mb > 0

\* C30: for ram_total > 0, cpu_count >= 1 and avg_process_mb > 0 the call
\* returns settings with 1 <= pm.min_spare_servers <= pm.start_servers
\* <= pm.max_spare_servers <= pm.max_children, and pm is never "static".
C30_FpmAccepts ==
    AcceptableCall =>
        /\ settings.kind = "returned"
        /\ 1 <= settings.value["pm.min_spare_servers"]
        /\ settings.value["pm.min_spare_servers"] <= settings.value["pm.start_servers"]
        /\ settings.value["pm.start_servers"] <= settings.value["pm.max_spare_servers"]
        /\ settings.value["pm.max_spare_servers"] <= settings.value["pm.max_children"]
        /\ settings.value["pm"] # "static"

\* C30 witness: the tightest case on a dynamic pool: the three server counts
\* were all cut to the same figure, half of max_children.
C30_Witness ==
    /\ AcceptableCall
    /\ settings.kind = "returned"
    /\ settings.value["pm"] = "dynamic"
    /\ settings.value["pm.min_spare_servers"] = settings.value["pm.max_children"] \div 2
    /\ settings.value["pm.start_servers"] = settings.value["pm.max_children"] \div 2
    /\ settings.value["pm.max_spare_servers"] = settings.value["pm.max_children"] \div 2
    /\ min_spare_of(settings.value["server_size"], specs["cpu_count"])
          > settings.value["pm.min_spare_servers"]

====
